---- MODULE Spec2Model ----
(***************************************************************************)
(* Model of mypath.py: the OSM_Map constructor (road graph build, node     *)
(* resolution, base rendering), Route / bfs / backtrace, draw and main.    *)
(* The document is read as a stream: every iteration of a findall loop     *)
(* draws its next element from a small set.                                *)
(***************************************************************************)
EXTENDS Integers, Sequences, FiniteSets, TLC

\* ---- bounds of the model ------------------------------------------------
NumNodes == 3
NumDocNodes == 2
MaxNd == 2
MaxRoute == 5

\* ---- program constants --------------------------------------------------
CanvasMax == 999
RoadColor == <<150, 150, 150>>
RouteColor == <<50, 50, 50>>

\* ---- input alphabets ----------------------------------------------------
\* NodeIds: the node ids of the graphs bfs is run on; DocNodeIds: the refs a
\* document's ways may hold.  Two way ids tell a repeated id from a new one.
NodeIds == 1..NumNodes
DocNodeIds == 1..NumDocNodes
WayIds == {"w1", "w2"}
TagKeys == {"highway", "name"}
None == 0
NoRoute == <<None>>
ParseOutcomes == {"ok", "IOError", "XMLSyntaxError"}

\* the geometry of the document: its first bounds element and node records
DocBounds == [minlon |-> 0, maxlon |-> 3, minlat |-> 0, maxlat |-> 3]
NodeAttrib(n) == [id |-> n, lon |-> n, lat |-> n]

VARIABLES
    pc,          \* position of the run in main / __init__ / Route / bfs
    exc,         \* the exception that ended the run, "none" while it runs
    out,         \* messages printed
    file,        \* the image file written by Save
    loaded,      \* outcome of etree.parse
    hasBounds,   \* whether the document holds a bounds element
    bounds, highways, adjacency, nodes, img,   \* fields of OSM_Map
    nodes_list,  \* local of __init__
    way,         \* id of the way element being visited
    repeat,      \* the way being visited repeats the id of an accepted way
    skipped,     \* some repeated way carried a highway tag
    pruned,      \* the ways read so far, repeated ids removed
    hi,          \* index of draw_highways in highways
    src, dest,   \* arguments of Route
    seen, queue, parent,   \* locals of bfs
    route,                 \* local of Route
    bt_route, currNode     \* locals of backtrace

vars == <<pc, exc, out, file, loaded, hasBounds, bounds, highways, adjacency,
          nodes, img, nodes_list, way, repeat, skipped, pruned, hi, src, dest,
          seen, queue, parent, route, bt_route, currNode>>

mapVars == <<bounds, highways, adjacency, nodes, img>>
docVars == <<loaded, hasBounds, way, repeat, skipped, pruned>>
bfsVars == <<seen, queue, parent, bt_route, currNode>>

\* ---- helpers ------------------------------------------------------------
Range(s) == {s[i] : i \in DOMAIN s}
EmptyMap == [x \in {} |-> {}]
EmptyAttrib == [x \in {} |-> 0]
Reverse(s) == [i \in 1..Len(s) |-> s[Len(s) + 1 - i]]

\* the locals of bfs and backtrace are gone once bfs returns or raises
BfsLeft ==
    /\ seen' = {} /\ queue' = <<>> /\ parent' = EmptyMap
    /\ bt_route' = <<>> /\ currNode' = None

\* the orders in which a set can be iterated
Orders(S) == {o \in [1..Cardinality(S) -> S] : \A i, j \in DOMAIN o : o[i] = o[j] => i = j}

\* highways is an insertion-ordered dict: a sequence of [id, nd]
HasKey(hw, id) == \E i \in DOMAIN hw : hw[i].id = id
DictSet(hw, id, w) ==
    IF HasKey(hw, id)
    THEN [i \in DOMAIN hw |-> IF hw[i].id = id THEN w ELSE hw[i]]
    ELSE Append(hw, w)

\* one branch pair of add_adjacency: adjacency[k] gets v
PutEdge(adj, k, v) ==
    IF k \notin DOMAIN adj \/ adj[k] = {}
    THEN [x \in DOMAIN adj \cup {k} |-> IF x = k THEN {v} ELSE adj[x]]
    ELSE [adj EXCEPT ![k] = adj[k] \cup {v}]

add_adjacency_oneway(adj, nl) ==
    IF Len(nl) > 1 THEN PutEdge(adj, nl[Len(nl) - 1], nl[Len(nl)]) ELSE adj

add_adjacency(adj, nl) ==
    IF Len(nl) > 1
    THEN PutEdge(PutEdge(adj, nl[Len(nl) - 1], nl[Len(nl)]), nl[Len(nl)], nl[Len(nl) - 1])
    ELSE adj

\* the condition of line 50
QualifiesAnyTime(k, id, hw) == k = "highway"

Qualifies(k, id, hw) == k = "highway" /\ ~HasKey(hw, id)

\* ---- draw ---------------------------------------------------------------
Project(v, lo, hiv) == (CanvasMax * (v - lo)) \div (hiv - lo)

Pixel(attrib, b) ==
    <<Project(attrib.lon, b.minlon, b.maxlon), Project(attrib.lat, b.minlat, b.maxlat)>>

InCanvas(p) == 0 < p[1] /\ p[1] < CanvasMax /\ 0 < p[2] /\ p[2] < CanvasMax

Coordinates(road, nds, b) ==
    LET px == [i \in DOMAIN road |-> Pixel(nds[road[i]], b)]
    IN  SelectSeq(px, InCanvas)

\* ImageDraw.line joins consecutive points: fewer than two points leave the
\* image as it is
Line(image, xy, fill) == IF Len(xy) >= 2 THEN Append(image, [xy |-> xy, fill |-> fill]) ELSE image

\* draw(road, colors): the exception it raises, or "none"
DrawExc(road, nds, b) ==
    IF road = NoRoute THEN "TypeError"
    ELSE IF \E i \in DOMAIN road : road[i] \notin DOMAIN nds THEN "KeyError"
    ELSE IF road # <<>> /\ DOMAIN b = {} THEN "KeyError"
    ELSE "none"

Draw(image, road, nds, b, fill) == Line(image, Coordinates(road, nds, b), fill)

\* ---- __init__ -----------------------------------------------------------
Init ==
    /\ pc = "parse" /\ exc = "none" /\ out = {}
    /\ file = [written |-> FALSE, img |-> <<>>]
    /\ loaded = "pending" /\ hasBounds = FALSE
    /\ bounds = EmptyAttrib /\ highways = <<>> /\ adjacency = EmptyMap
    /\ nodes = EmptyMap /\ img = <<>>
    /\ nodes_list = <<>> /\ way = "none" /\ repeat = FALSE /\ skipped = FALSE
    /\ pruned = <<>> /\ hi = 1
    /\ src = None /\ dest = None
    /\ seen = {} /\ queue = <<>> /\ parent = EmptyMap
    /\ route = <<>> /\ bt_route = <<>> /\ currNode = None

\* an exception nothing catches ends the run with a traceback
Abort(e) == pc' = "aborted" /\ exc' = e

\* doc = etree.parse(osmFileName); IOError is caught at line 63 and the
\* constructor returns, any other error leaves main
Parse(outcome) ==
    /\ pc = "parse"
    /\ loaded' = outcome
    /\ CASE outcome = "ok" -> pc' = "bounds" /\ UNCHANGED <<exc, out>>
         [] outcome = "IOError" ->
                pc' = "route" /\ out' = out \cup {"Could not open file"} /\ UNCHANGED exc
         [] OTHER -> Abort(outcome) /\ UNCHANGED out
    /\ UNCHANGED <<file, hasBounds, mapVars, nodes_list, way, repeat, skipped, pruned,
                   hi, src, dest, bfsVars, route>>

\* self.bounds = doc.findall("bounds")[0].attrib
ReadBounds(present) ==
    /\ pc = "bounds"
    /\ hasBounds' = present
    /\ IF present
       THEN bounds' = DocBounds /\ pc' = "ways" /\ UNCHANGED exc
       ELSE Abort("IndexError") /\ UNCHANGED bounds
    /\ UNCHANGED <<out, file, loaded, highways, adjacency, nodes, img, nodes_list, way,
                   repeat, skipped, pruned, hi, src, dest, bfsVars, route>>

\* for way in doc.findall("way")
NextWay(id) ==
    /\ pc = "ways"
    /\ way' = id /\ repeat' = HasKey(highways, id)
    /\ pc' = "tags"
    /\ UNCHANGED <<exc, out, file, loaded, hasBounds, mapVars, nodes_list, skipped,
                   pruned, hi, src, dest, bfsVars, route>>

EndWays ==
    /\ pc = "ways"
    /\ pc' = "resolve"
    /\ UNCHANGED <<exc, out, file, docVars, mapVars, nodes_list, hi, src, dest,
                   bfsVars, route>>

\* for tag in way.findall("tag"): if tag.attrib['k'] == "highway" and ...
NextTag(k) ==
    /\ pc = "tags"
    /\ pc' = IF Qualifies(k, way, highways) THEN "nds" ELSE "tags"
    /\ skipped' = (skipped \/ (repeat /\ k = "highway"))
    /\ UNCHANGED <<exc, out, file, loaded, hasBounds, mapVars, nodes_list, way, repeat,
                   pruned, hi, src, dest, bfsVars, route>>

EndTags ==
    /\ pc = "tags"
    /\ pc' = "ways"
    /\ way' = "none" /\ repeat' = FALSE
    /\ UNCHANGED <<exc, out, file, loaded, hasBounds, skipped, pruned, mapVars,
                   nodes_list, hi, src, dest, bfsVars, route>>

\* for nd in way.findall("nd"): append the ref, add_adjacency(nodes_list)
NextNd(ref) ==
    /\ pc = "nds"
    /\ Len(nodes_list) < MaxNd
    /\ nodes_list' = Append(nodes_list, ref)
    /\ adjacency' = add_adjacency(adjacency, nodes_list')
    /\ UNCHANGED <<pc, exc, out, file, docVars, bounds, highways, nodes, img, hi,
                   src, dest, bfsVars, route>>

\* self.highways[id] = Way(way.attrib, nodes_list); nodes_list = []
EndNds ==
    /\ pc = "nds"
    /\ highways' = DictSet(highways, way, [id |-> way, nd |-> nodes_list])
    /\ pruned' = IF repeat THEN pruned ELSE Append(pruned, [id |-> way, nd |-> nodes_list])
    /\ nodes_list' = <<>>
    /\ pc' = "tags"
    /\ UNCHANGED <<exc, out, file, loaded, hasBounds, way, repeat, skipped, bounds,
                   adjacency, nodes, img, hi, src, dest, bfsVars, route>>

\* for key in self.adjacency: for node in doc.xpath("//node[@id = key]")
ResolveNodes(recs) ==
    /\ pc = "resolve"
    /\ nodes' = [n \in DOMAIN adjacency \cap recs |-> NodeAttrib(n)]
    /\ hi' = 1
    /\ pc' = "draw_highways"
    /\ UNCHANGED <<exc, out, file, docVars, bounds, highways, adjacency, img,
                   nodes_list, src, dest, bfsVars, route>>

\* draw_highways: self.draw(self.highways[key].nd, (150,150,150)) per key
DrawHighway ==
    /\ pc = "draw_highways"
    /\ hi <= Len(highways)
    /\ LET e == DrawExc(highways[hi].nd, nodes, bounds)
       IN  IF e = "none"
           THEN /\ img' = Draw(img, highways[hi].nd, nodes, bounds, RoadColor)
                /\ hi' = hi + 1
                /\ UNCHANGED <<pc, exc>>
           ELSE Abort(e) /\ UNCHANGED <<img, hi>>
    /\ UNCHANGED <<out, file, docVars, bounds, highways, adjacency, nodes, nodes_list,
                   src, dest, bfsVars, route>>

\* the constructor returns; main goes on to mp.Route
EndDrawHighways ==
    /\ pc = "draw_highways"
    /\ hi > Len(highways)
    /\ pc' = "route"
    /\ UNCHANGED <<exc, out, file, docVars, mapVars, nodes_list, hi, src, dest,
                   bfsVars, route>>

\* ---- Route, bfs, backtrace ----------------------------------------------
\* main: mp.Route(node_id1, node_id2); Route: route = []
Route(s, d) ==
    /\ pc = "route"
    /\ src' = s /\ dest' = d
    /\ route' = <<>>
    /\ pc' = "bfs_init"
    /\ UNCHANGED <<exc, out, file, docVars, mapVars, nodes_list, hi, bfsVars>>

\* bfs, lines 125-130: seed seen, queue and parent; raise KeyError when dest
\* is no key of adjacency
BfsInit ==
    /\ pc = "bfs_init"
    /\ IF dest \notin DOMAIN adjacency
       THEN pc' = "route_except" /\ BfsLeft
       ELSE /\ pc' = "bfs"
            /\ seen' = {src} /\ queue' = <<src>>
            /\ parent' = [x \in {src} |-> None]
            /\ UNCHANGED <<bt_route, currNode>>
    /\ UNCHANGED <<exc, out, file, docVars, mapVars, nodes_list, hi, src, dest, route>>

\* the for loop of lines 136-139 for one iteration order of adjacency[vertex]
Expand(order, sn, vertex, par, q) ==
    LET new == SelectSeq(order, LAMBDA n : n \notin sn)
    IN  [parent |-> [x \in DOMAIN par \cup Range(new) |->
                        IF x \in Range(new) THEN vertex ELSE par[x]],
         queue |-> q \o new]

\* vertex = queue.popleft(); vertex == dest: backtrace(vertex, parent) starts
BfsFound ==
    /\ pc = "bfs" /\ queue # <<>>
    /\ Head(queue) = dest
    /\ queue' = Tail(queue)
    /\ bt_route' = <<dest>> /\ currNode' = dest
    /\ pc' = "backtrace"
    /\ UNCHANGED <<exc, out, file, docVars, mapVars, nodes_list, hi, src, dest, seen,
                   parent, route>>

\* self.adjacency[vertex] raises KeyError for a vertex that is no key
BfsMiss ==
    /\ pc = "bfs" /\ queue # <<>>
    /\ Head(queue) # dest
    /\ Head(queue) \notin DOMAIN adjacency
    /\ pc' = "route_except"
    /\ BfsLeft
    /\ UNCHANGED <<exc, out, file, docVars, mapVars, nodes_list, hi, src, dest, route>>

BfsExpand(order) ==
    /\ pc = "bfs" /\ queue # <<>>
    /\ Head(queue) # dest
    /\ Head(queue) \in DOMAIN adjacency
    /\ order \in Orders(adjacency[Head(queue)])
    /\ LET r == Expand(order, seen, Head(queue), parent, Tail(queue))
       IN  parent' = r.parent /\ queue' = r.queue
    /\ seen' = seen \cup {Head(queue)}
    /\ UNCHANGED <<pc, exc, out, file, docVars, mapVars, nodes_list, hi, src, dest,
                   route, bt_route, currNode>>

\* the queue is empty: bfs falls off its end and returns None
BfsEmpty ==
    /\ pc = "bfs" /\ queue = <<>>
    /\ route' = NoRoute
    /\ pc' = "draw_route"
    /\ BfsLeft
    /\ UNCHANGED <<exc, out, file, docVars, mapVars, nodes_list, hi, src, dest>>

\* while parent[currNode] != None: route.append(parent[currNode]); ...
BacktraceStep ==
    /\ pc = "backtrace"
    /\ parent[currNode] # None
    /\ Len(bt_route) < MaxRoute
    /\ bt_route' = Append(bt_route, parent[currNode])
    /\ currNode' = parent[currNode]
    /\ UNCHANGED <<pc, exc, out, file, docVars, mapVars, nodes_list, hi, src, dest,
                   seen, queue, parent, route>>

\* return route[::-1]
ReturnedUnreversed(r) == r

Returned(r) == Reverse(r)

BacktraceReturn ==
    /\ pc = "backtrace"
    /\ parent[currNode] = None
    /\ route' = Returned(bt_route)
    /\ pc' = "draw_route"
    /\ BfsLeft
    /\ UNCHANGED <<exc, out, file, docVars, mapVars, nodes_list, hi, src, dest>>

\* except KeyError: print("Invalid node id entered"); route keeps []
HandlesNothing(e) == FALSE

Handles(e) == e = "KeyError"

RouteExcept ==
    /\ pc = "route_except"
    /\ IF Handles("KeyError")
       THEN /\ out' = out \cup {"Invalid node id entered"}
            /\ pc' = "draw_route"
            /\ UNCHANGED exc
       ELSE Abort("KeyError") /\ UNCHANGED out
    /\ UNCHANGED <<file, docVars, mapVars, nodes_list, hi, src, dest, bfsVars, route>>

\* self.draw(route, (50,50,50)), outside the try of Route
DrawRoute ==
    /\ pc = "draw_route"
    /\ LET e == DrawExc(route, nodes, bounds)
       IN  IF e = "none"
           THEN /\ img' = Draw(img, route, nodes, bounds, RouteColor)
                /\ pc' = "save"
                /\ UNCHANGED exc
           ELSE Abort(e) /\ UNCHANGED img
    /\ UNCHANGED <<out, file, docVars, bounds, highways, adjacency, nodes, nodes_list,
                   hi, src, dest, bfsVars, route>>

\* mp.Save(imgName)
Save ==
    /\ pc = "save"
    /\ file' = [written |-> TRUE, img |-> img]
    /\ pc' = "done"
    /\ UNCHANGED <<exc, out, docVars, mapVars, nodes_list, hi, src, dest, bfsVars, route>>

Next ==
    \/ \E o \in ParseOutcomes : Parse(o)
    \/ \E p \in BOOLEAN : ReadBounds(p)
    \/ \E id \in WayIds : NextWay(id)
    \/ EndWays
    \/ \E k \in TagKeys : NextTag(k)
    \/ EndTags
    \/ \E ref \in DocNodeIds : NextNd(ref)
    \/ EndNds
    \/ \E recs \in SUBSET DocNodeIds : ResolveNodes(recs)
    \/ DrawHighway
    \/ EndDrawHighways
    \/ \E s, d \in DocNodeIds : Route(s, d)
    \/ BfsInit
    \/ BfsFound
    \/ BfsMiss
    \/ \E o \in UNION {Orders(S) : S \in SUBSET DocNodeIds} : BfsExpand(o)
    \/ BfsEmpty
    \/ BacktraceStep
    \/ BacktraceReturn
    \/ RouteExcept
    \/ DrawRoute
    \/ Save

Spec == Init /\ [][Next]_vars

\* ---- bfs on its own ------------------------------------------------------
\* bfs reads self.adjacency, src and dest only.  SpecBfs starts it on every
\* adjacency structure add_adjacency can leave behind (symmetric, every key
\* with at least one neighbour, a node may neighbour itself) over NodeIds;
\* the fields bfs does not read stay at fixed values.
Symmetric(adj) == \A a \in DOMAIN adj : \A b \in adj[a] : b \in DOMAIN adj /\ a \in adj[b]

Graphs ==
    {g \in UNION {[K -> (SUBSET NodeIds) \ {{}}] : K \in SUBSET NodeIds} : Symmetric(g)}

InitBfs ==
    /\ pc = "bfs_init" /\ exc = "none" /\ out = {}
    /\ file = [written |-> FALSE, img |-> <<>>]
    /\ loaded = "ok" /\ hasBounds = TRUE
    /\ bounds = DocBounds /\ highways = <<>>
    /\ adjacency \in Graphs
    /\ nodes = [n \in DOMAIN adjacency |-> NodeAttrib(n)] /\ img = <<>>
    /\ nodes_list = <<>> /\ way = "none" /\ repeat = FALSE /\ skipped = FALSE
    /\ pruned = <<>> /\ hi = 1
    /\ src \in NodeIds /\ dest \in NodeIds
    /\ seen = {} /\ queue = <<>> /\ parent = EmptyMap
    /\ route = <<>> /\ bt_route = <<>> /\ currNode = None

NextBfs ==
    \/ BfsInit
    \/ BfsFound
    \/ BfsMiss
    \/ \E o \in UNION {Orders(S) : S \in SUBSET NodeIds} : BfsExpand(o)
    \/ BfsEmpty
    \/ BacktraceStep
    \/ BacktraceReturn

SpecBfs == InitBfs /\ [][NextBfs]_vars

\* ---- the build as a function of a document of tagged ways ---------------
RECURSIVE AddRoad(_, _, _)
AddRoad(adj, nd, k) ==
    IF k > Len(nd) THEN adj
    ELSE AddRoad(add_adjacency(adj, SubSeq(nd, 1, k)), nd, k + 1)

RECURSIVE Build(_, _, _, _)
Build(doc, i, hw, adj) ==
    IF i > Len(doc) THEN [highways |-> hw, adjacency |-> adj]
    ELSE IF Qualifies("highway", doc[i].id, hw)
         THEN Build(doc, i + 1, DictSet(hw, doc[i].id, doc[i]), AddRoad(adj, doc[i].nd, 1))
         ELSE Build(doc, i + 1, hw, adj)

\* draw_highways on an image, when no draw raises
RECURSIVE RenderRoads(_, _, _, _, _)
RenderRoads(image, hw, i, nds, b) ==
    IF i > Len(hw) THEN image
    ELSE RenderRoads(Draw(image, hw[i].nd, nds, b, RoadColor), hw, i + 1, nds, b)

\* ---- graph notions the claims use ---------------------------------------
Keys == DOMAIN adjacency

Neighbours(g, S) == UNION {g[x] : x \in S \cap DOMAIN g}

RECURSIVE Reach(_, _)
Reach(g, S) ==
    LET T == S \cup Neighbours(g, S) IN IF T = S THEN S ELSE Reach(g, T)

\* number of edges on a shortest path from the set S to d (d reachable)
RECURSIVE Dist(_, _, _)
Dist(g, S, d) == IF d \in S THEN 0 ELSE 1 + Dist(g, S \cup Neighbours(g, S), d)

RoadNodes(hw) == UNION {Range(hw[i].nd) : i \in DOMAIN hw}

BuildPhase == {"parse", "bounds", "ways", "tags", "nds"}
RoutePhase == {"bfs_init", "bfs", "backtrace", "route_except", "draw_route", "save", "done"}

\* bfs handed a route back to Route
BfsReturned == pc = "draw_route" /\ route # NoRoute /\ route # <<>>

\* ---- claims -------------------------------------------------------------

\* C1: for every adjacency structure built from roads and connected (src,
\* dest), the route bfs returns has exactly graph-distance(src, dest) edges,
\* i.e. distance + 1 node ids, whatever the neighbour iteration order.
C1_BfsOptimal ==
    BfsReturned => Len(route) = Dist(adjacency, {src}, dest) + 1

\* C2: src and dest both keys of adjacency but in different components:
\* Route ends without a route and the run goes on to Save; it never aborts.
C2_UnreachableStillSaves ==
    (pc \in RoutePhase \cup {"aborted"} /\ src \in Keys /\ dest \in Keys
        /\ dest \notin Reach(adjacency, {src}))
    => /\ pc # "aborted"
       /\ (pc = "done" => file.written)

\* C3: a route returned by bfs starts at src, ends at dest, and each
\* consecutive pair of it is an edge of adjacency, for every iteration order.
C3_RouteValid ==
    BfsReturned =>
        /\ route[1] = src
        /\ route[Len(route)] = dest
        /\ \A i \in 1..(Len(route) - 1) :
              route[i] \in Keys /\ route[i + 1] \in adjacency[route[i]]

C3_Witness == BfsReturned /\ Len(route) >= 3

\* C4: when src or dest is no key of adjacency, Route prints the invalid-node
\* message, the canvas stays the base-roads image, nothing aborts or stops
\* the run before Save, and the image saved is the base-roads image.
InvalidArgs == pc \in RoutePhase \cup {"aborted"} /\ src # None
                 /\ (src \notin Keys \/ dest \notin Keys)

BaseImage == RenderRoads(<<>>, highways, 1, nodes, bounds)

C4_InvalidNode ==
    InvalidArgs =>
        /\ pc \notin {"aborted", "backtrace"}
        /\ img = BaseImage
        /\ (pc \in {"draw_route", "save", "done"} =>
               route = <<>> /\ "Invalid node id entered" \in out)
        /\ (pc = "done" => file.written /\ file.img = BaseImage)
        /\ (pc # "done" => ENABLED Next)

C4_Witness ==
    /\ pc = "done" /\ src \notin Keys /\ dest \in Keys
    /\ file.written /\ file.img # <<>>

\* C5: after every add_adjacency step, B is in adjacency[A] if and only if A
\* is in adjacency[B].
C5_Symmetry == Symmetric(adjacency)

C5_Witness ==
    /\ pc = "nds" /\ Len(nodes_list) = 2 /\ nodes_list[1] # nodes_list[2]
    /\ nodes_list[2] \in adjacency[nodes_list[1]]

\* C6: a loaded document with no bounds element, or with no way carrying a
\* highway tag, is built without an error, to an empty road set and an empty
\* adjacency structure.
C6_DegenerateBuilds ==
    (loaded = "ok" /\ pc # "bounds" /\ (~hasBounds \/ highways = <<>>))
    => /\ pc # "aborted"
       /\ (pc \notin BuildPhase => adjacency = EmptyMap)

\* C7: when the document cannot be opened or parsed the run stops there: no
\* route search and no image save follow the failure.
C7_LoadFailureTerminal ==
    loaded \in {"IOError", "XMLSyntaxError"}
    => pc \notin RoutePhase /\ src = None /\ ~file.written

\* C8: after the build a node id is a key of adjacency (and nodes holds
\* records of keys only) if and only if an accepted road references it, the
\* nodes of single-node roads included.
C8_KeysAreRoadNodes ==
    (loaded = "ok" /\ pc \notin BuildPhase)
    => Keys = RoadNodes(highways) /\ DOMAIN nodes \subseteq Keys

\* C9: of the tagged ways with one id only the first is stored and adds
\* edges: highways and adjacency equal those built from the document with the
\* later occurrences removed.
C9_Dedup ==
    pc \in {"ways", "tags", "resolve"} =>
        LET built == Build(pruned, 1, <<>>, EmptyMap)
        IN  highways = built.highways /\ adjacency = built.adjacency

C9_Witness == skipped /\ pc = "resolve" /\ Len(highways) = 2 /\ adjacency # EmptyMap

\* C10: the search terminates: the walk of backtrace over the parent map
\* reaches src, so it never comes back to a node it has already visited (the
\* walk is a function of the node it stands on: a node visited twice is
\* visited forever).
C10_BacktraceReachesSrc ==
    pc = "backtrace" =>
        \A i, j \in DOMAIN bt_route : bt_route[i] = bt_route[j] => i = j

====
